---- MODULE Spec2Model ----
(***************************************************************************)
(* Model of plugins/modules/ansible_collection.py: the repair of a         *)
(* comma-split specifier list, the planning of the ansible-galaxy command  *)
(* vector, the emulation of "collection uninstall" and the run_module      *)
(* state machine around them.                                              *)
(*                                                                         *)
(* Python strings are sequences of one-character strings, so that          *)
(* lstrip, startswith, split, join and the substring test are computed.    *)
(* An optional value (None or a value) is the set {} or {v}.               *)
(***************************************************************************)
EXTENDS Integers, Sequences, FiniteSets, TLC

VARIABLES
    tokens,       \* argument of a direct call of fix_orphaned_version_specifiers
    fixed_name,   \* its return value, None before the call
    params,       \* module.params
    which,        \* what shutil.which finds for a bare executable name, or None
    fs,           \* install directories that exist on the host
    pc,           \* position of run_module: Idle, Planned, Executed, Done, Failed
    name,         \* the local `name` of run_module after the repair
    result,       \* the result dict handed to exit_json / fail_json
    invocations,  \* calls of module.run_command in this run
    deleted,      \* paths this run removed with shutil.rmtree
    rmtree_error, \* how an rmtree of this run failed: "none", "missing", "io"
    log           \* outcome of every finished run, oldest first

vars == <<tokens, fixed_name, params, which, fs, pc, name, result,
          invocations, deleted, rmtree_error, log>>

None == {}
Some(v) == {v}
Val(o) == CHOOSE v \in o : TRUE

------------------------------------------------------------------------------
(* Bounds *)

MaxTokens == 3   \* longest list handed to a direct call of the repair
MaxName == 2     \* longest `name` list of a module run
MaxRuns == 2     \* runs of the module in one behaviour

------------------------------------------------------------------------------
(* Python string primitives *)

Whitespace == {" ", "\t", "\n"}

StartsWith(s, p) == Len(s) >= Len(p) /\ SubSeq(s, 1, Len(p)) = p

\* str.startswith(tuple)
StartsWithAny(s, prefixes) == \E i \in DOMAIN prefixes : StartsWith(s, prefixes[i])

RECURSIVE LStrip(_)
LStrip(s) == IF s # <<>> /\ Head(s) \in Whitespace THEN LStrip(Tail(s)) ELSE s

\* sep.join(list)
RECURSIVE Join(_, _)
Join(sep, list) ==
    IF list = <<>> THEN <<>>
    ELSE IF Len(list) = 1 THEN list[1]
    ELSE list[1] \o sep \o Join(sep, Tail(list))

\* s.split(c) for a one-character separator c
RECURSIVE SplitOn(_, _, _)
SplitOn(s, c, cur) ==
    IF s = <<>> THEN <<cur>>
    ELSE IF Head(s) = c THEN <<cur>> \o SplitOn(Tail(s), c, <<>>)
    ELSE SplitOn(Tail(s), c, Append(cur, Head(s)))

Split(s, c) == SplitOn(s, c, <<>>)

\* s.split(): split on runs of whitespace, no empty words
RECURSIVE SplitWs(_, _)
SplitWs(s, cur) ==
    IF s = <<>> THEN (IF cur = <<>> THEN <<>> ELSE <<cur>>)
    ELSE IF Head(s) \in Whitespace
         THEN (IF cur = <<>> THEN <<>> ELSE <<cur>>) \o SplitWs(Tail(s), <<>>)
    ELSE SplitWs(Tail(s), Append(cur, Head(s)))

\* sub in s
Contains(s, sub) ==
    \E i \in 0..(Len(s) - Len(sub)) : SubSeq(s, i + 1, i + Len(sub)) = sub

------------------------------------------------------------------------------
(* fix_orphaned_version_specifiers *)

VERSION_SPECIFIER_PREFIXES ==
    << <<"*">>, <<"!", "=">>, <<"=", "=">>, <<">", "=">>, <<">">>,
       <<"<", "=">>, <<"<">> >>

IsOrphanNoLstrip(item) == StartsWithAny(item, VERSION_SPECIFIER_PREFIXES)

\* the test of the loop: item.lstrip().startswith(VERSION_SPECIFIER_PREFIXES)
IsOrphan(item) == StartsWithAny(LStrip(item), VERSION_SPECIFIER_PREFIXES)

Comma == <<",">>

\* the for loop; yields the pair <<fixed_name, collection_name_components>>
RECURSIVE FixLoop(_, _, _)
FixLoop(items, fixed, components) ==
    IF items = <<>> THEN <<fixed, components>>
    ELSE IF IsOrphan(Head(items))
         THEN FixLoop(Tail(items), fixed, Append(components, Head(items)))
    ELSE FixLoop(Tail(items),
                 IF components # <<>> THEN Append(fixed, Join(Comma, components))
                                      ELSE fixed,
                 <<Head(items)>>)

FixNoFinalFlush(items) == FixLoop(items, <<>>, <<>>)[1]

fix_orphaned_version_specifiers(items) ==
    LET r == FixLoop(items, <<>>, <<>>)
    IN  IF r[2] # <<>> THEN Append(r[1], Join(Comma, r[2])) ELSE r[1]

------------------------------------------------------------------------------
(* installed_collections_dict, remove_version_specifiers, collection_uninstall *)

Slash == <<"/">>

\* os.path.join(path, *segments)
RECURSIVE os_path_join(_, _)
os_path_join(path, segments) ==
    IF segments = <<>> THEN path
    ELSE LET seg == Head(segments)
             joined == IF StartsWith(seg, Slash) THEN seg
                       ELSE IF path = <<>> \/ path[Len(path)] = "/" THEN path \o seg
                       ELSE path \o Slash \o seg
         IN  os_path_join(joined, Tail(segments))

\* os.path.join(path, *collection.split('.'))
InstallPath(path, collection) == os_path_join(path, Split(collection, "."))

\* the (path, collection) pairs of the two nested loops, in encounter order;
\* list_result is the decoded JSON object as a sequence of <<key, value>> items
RECURSIVE ManifestPairs(_)
ManifestPairs(list_result) ==
    IF list_result = <<>> THEN <<>>
    ELSE LET path == Head(list_result)[1]
             collections_list == Head(list_result)[2]
         IN  [i \in 1..Len(collections_list) |-> <<path, collections_list[i]>>]
             \o ManifestPairs(Tail(list_result))

RECURSIVE PathsOf(_, _)
PathsOf(pairs, collection) ==
    IF pairs = <<>> THEN <<>>
    ELSE (IF Head(pairs)[2] = collection
          THEN <<InstallPath(Head(pairs)[1], collection)>> ELSE <<>>)
         \o PathsOf(Tail(pairs), collection)

\* collections_dict: collection -> install paths, in encounter order
installed_collections_dict(list_result) ==
    LET pairs == ManifestPairs(list_result)
    IN  [c \in {pairs[i][2] : i \in DOMAIN pairs} |-> PathsOf(pairs, c)]

\* what remove_version_specifiers yields for one item
BareName(item) ==
    LET parts == Split(item, ":")
    IN  IF Len(parts) > 1 /\ StartsWithAny(parts[2], VERSION_SPECIFIER_PREFIXES)
        THEN parts[1] ELSE item

remove_version_specifiers(names) == [i \in DOMAIN names |-> BareName(names[i])]

\* shutil.rmtree(path) on the set of existing directories
Subtree(files, path) ==
    {q \in files : q = path \/ StartsWith(q, path \o Slash)}

\* the paths handed to shutil.rmtree, in order, while nothing raises
RECURSIVE RmtreeSequence(_, _)
RmtreeSequence(collections, index) ==
    IF collections = <<>> THEN <<>>
    ELSE (IF Head(collections) \in DOMAIN index THEN index[Head(collections)]
          ELSE <<>>)
         \o RmtreeSequence(Tail(collections), index)

\* runs the rmtree calls; `bad` are the paths whose removal the OS refuses
RECURSIVE RmtreeLoop(_, _, _, _)
RmtreeLoop(paths, files, removed, bad) ==
    IF paths = <<>> THEN [fs |-> files, deleted |-> removed, error |-> "none"]
    ELSE IF Head(paths) \notin files
         THEN [fs |-> files, deleted |-> removed, error |-> "missing"]
    ELSE IF Head(paths) \in bad
         THEN [fs |-> files, deleted |-> removed, error |-> "io"]
    ELSE RmtreeLoop(Tail(paths), files \ Subtree(files, Head(paths)),
                    removed \cup Subtree(files, Head(paths)), bad)

\* collection_uninstall(name, list_result) run on the directories `files`.
\* stdout.json is json.loads(stdout): None when it raises.  raised is
\* "parse" (json.loads), "type" (iterating name=None), "rmtree" or "none".
collection_uninstall(nm, stdout, files, bad) ==
    IF stdout.json = None
    THEN [raised |-> "parse", changed |-> FALSE, fs |-> files,
          deleted |-> {}, error |-> "none"]
    ELSE IF nm = None
    THEN [raised |-> "type", changed |-> FALSE, fs |-> files,
          deleted |-> {}, error |-> "none"]
    ELSE LET installed_collections == installed_collections_dict(Val(stdout.json))
             collections == remove_version_specifiers(Val(nm))
             run == RmtreeLoop(RmtreeSequence(collections, installed_collections),
                               files, {}, bad)
         IN  [raised |-> IF run.error = "none" THEN "none" ELSE "rmtree",
              changed |-> \E i \in DOMAIN collections :
                              collections[i] \in DOMAIN installed_collections,
              fs |-> run.fs, deleted |-> run.deleted, error |-> run.error]

------------------------------------------------------------------------------
(* The host and the ansible-galaxy CLI, as far as run_module depends on them *)

Roots == <<<<"/", "a">>, <<"/", "b">>>>
Collections == <<<<"n", ".", "x">>, <<"n", ".", "y">>>>

AllPaths == {InstallPath(Roots[r], Collections[c]) :
                r \in DOMAIN Roots, c \in DOMAIN Collections}

\* decoded output of `collection list --format=json` on the directories `files`
Listing(files) ==
    LET under(r) == SelectSeq(Collections,
                              LAMBDA c : InstallPath(Roots[r], c) \in files)
        rec(r) == <<Roots[r], under(r)>>
        keep == SelectSeq([r \in DOMAIN Roots |-> r],
                          LAMBDA r : under(r) # <<>>)
    IN  [i \in DOMAIN keep |-> rec(keep[i])]

BareMarker == <<"i", "n", "s", "t", "a", "l", "l", "e", "d", " ", "s", "u", "c", "c", "e", "s", "s", "f", "u", "l", "l", "y">>
SuccessMarker == <<"w", "a", "s", " ", "i", "n", "s", "t", "a", "l", "l", "e", "d", " ", "s", "u", "c", "c", "e", "s", "s", "f", "u", "l", "l", "y">>

OutJson == <<"{", "}">>
OutGarbage == <<"?">>
OutInstalled == <<"n", ".", "x", " ", "w", "a", "s", " ", "i", "n", "s", "t", "a", "l", "l", "e", "d", " ", "s", "u", "c", "c", "e", "s", "s", "f", "u", "l", "l", "y">>
OutNoWas == <<"i", "n", "s", "t", "a", "l", "l", "e", "d", " ", "s", "u", "c", "c", "e", "s", "s", "f", "u", "l", "l", "y">>
OutNothing == <<"s", "k", "i", "p">>

ListOutputs(files) ==
    { [text |-> OutJson, json |-> Some(Listing(files))],
      [text |-> OutGarbage, json |-> None] }

InstallOutputs ==
    { [text |-> t, json |-> None] : t \in {OutInstalled, OutNoWas, OutNothing} }

ExitCodes == {0, 1}
Stderrs == {<<"E">>}

\* paths whose removal the OS refuses in a run: none or one
Faults == {{}} \cup {{p} : p \in AllPaths}

------------------------------------------------------------------------------
(* run_module *)

States == {"absent", "present", "latest", "forcereinstall"}

W_collection == <<"c", "o", "l", "l", "e", "c", "t", "i", "o", "n">>
W_list == <<"l", "i", "s", "t">>
W_format_json == <<"-", "-", "f", "o", "r", "m", "a", "t", "=", "j", "s", "o", "n">>
W_install == <<"i", "n", "s", "t", "a", "l", "l">>
W_upgrade == <<"-", "-", "u", "p", "g", "r", "a", "d", "e">>
W_force == <<"-", "-", "f", "o", "r", "c", "e">>
W_r == <<"-", "r">>

state_args(state) ==
    CASE state = "absent" -> <<W_list, W_format_json>>
      [] state = "present" -> <<W_install>>
      [] state = "latest" -> <<W_install, W_upgrade>>
      [] state = "forcereinstall" -> <<W_install, W_force>>

\* the inputs a task can hand to the module
NameTokens == {<<"n", ".", "x">>, <<"n", ".", "y">>, <<"n", ".", "x", ":", ">", "1">>, <<"<", "2">>}
NameInputs ==
    {None} \cup {Some(l) : l \in UNION {[1..k -> NameTokens] : k \in 0..MaxName}}
RequirementsInputs == {None, Some(<<"r", ".", "y", "m", "l">>)}
ExtraArgsInputs == {None, Some(<<"-", "v">>), Some(<<" ", "-", "v", " ", " ", "-", "f", " ">>)}
ExecutableInputs == {<<"g">>, <<"/", "o", "/", "g">>}
WhichResults == {None, Some(<<"/", "b", "/", "g">>)}

InitialResult ==
    [changed |-> FALSE, rc |-> None, stderr |-> None, stdout |-> None,
     cmd |-> None, msg |-> None]

\* the outcome of a run, as appended to log when the run ends
Outcome(p, res, files, removed, err, calls) ==
    [pc |-> p, result |-> res, fs |-> files, deleted |-> removed,
     rmtree_error |-> err, invocations |-> calls]

\* the run ends in position p with result res
End(p, res, files, removed, err, calls) ==
    /\ pc' = p
    /\ result' = res
    /\ fs' = files
    /\ deleted' = removed
    /\ rmtree_error' = err
    /\ invocations' = calls
    /\ log' = Append(log, Outcome(p, res, files, removed, err, calls))

\* required_one_of / mutually_exclusive of AnsibleModule count the options
\* the task supplied
Supplied == (IF params.name # None THEN 1 ELSE 0)
            + (IF params.requirements # None THEN 1 ELSE 0)

ArgumentError ==
    IF Supplied > 1 THEN Some("parameters are mutually exclusive")
    ELSE IF Supplied < 1 THEN Some("one of the following is required")
    ELSE None

\* if name: name = fix_orphaned_version_specifiers(name)
RepairedName ==
    IF params.name # None /\ Val(params.name) # <<>>
    THEN Some(fix_orphaned_version_specifiers(Val(params.name)))
    ELSE params.name

\* if extra_args: extra_args = extra_args.split() else: extra_args = []
ExtraArgs ==
    IF params.extra_args # None /\ Val(params.extra_args) # <<>>
    THEN SplitWs(Val(params.extra_args), <<>>)
    ELSE <<>>

\* the executable after the lookup, None when shutil.which finds nothing
Executable ==
    IF "/" \notin {params.executable[i] : i \in DOMAIN params.executable}
    THEN which
    ELSE Some(params.executable)

TargetsIgnoringState(nm) ==
    IF params.requirements # None /\ Val(params.requirements) # <<>>
    THEN <<W_r, Val(params.requirements)>>
    ELSE Val(nm)

Targets(nm) ==
    IF params.state = "absent" THEN <<>>
    ELSE IF params.requirements # None /\ Val(params.requirements) # <<>>
         THEN <<W_r, Val(params.requirements)>>
    ELSE Val(nm)

Command(nm) ==
    <<Val(Executable), W_collection>> \o state_args(params.state)
        \o ExtraArgs \o Targets(nm)

\* AnsibleModule(...) up to result['cmd'] = cmd
Plan ==
    /\ pc = "Idle"
    /\ UNCHANGED <<tokens, fixed_name, params, which>>
    /\ IF ArgumentError # None
       THEN /\ End("Failed", [InitialResult EXCEPT !.msg = ArgumentError],
                   fs, deleted, rmtree_error, invocations)
            /\ UNCHANGED name
       ELSE /\ name' = RepairedName
            /\ IF Executable = None
               THEN End("Failed",
                        [InitialResult EXCEPT !.msg = Some("executable not found")],
                        fs, deleted, rmtree_error, invocations)
               ELSE /\ pc' = "Planned"
                    /\ result' = [InitialResult EXCEPT
                                     !.cmd = Some(Command(RepairedName))]
                    /\ UNCHANGED <<fs, deleted, rmtree_error, invocations, log>>

\* rc, stdout, stderr = module.run_command(cmd, cwd=chdir), and the three
\* assignments to result
Execute ==
    /\ pc = "Planned"
    /\ \E rc \in ExitCodes, err \in Stderrs :
        \E out \in (IF params.state = "absent" THEN ListOutputs(fs)
                                               ELSE InstallOutputs) :
            result' = [result EXCEPT !.rc = Some(rc), !.stdout = Some(out),
                                     !.stderr = Some(err)]
    /\ invocations' = invocations + 1
    /\ pc' = "Executed"
    /\ UNCHANGED <<tokens, fixed_name, params, which, fs, name, deleted,
                   rmtree_error, log>>

ExitIgnored == FALSE

\* rc != 0
ExitFailed == Val(result.rc) # 0

\* from `if rc != 0` to module.exit_json
Conclude ==
    /\ pc = "Executed"
    /\ UNCHANGED <<tokens, fixed_name, params, which, name>>
    /\ IF ExitFailed
       THEN End("Failed",
                [result EXCEPT !.msg = Some("exit with non-zero code")],
                fs, deleted, rmtree_error, invocations)
       ELSE IF params.state = "absent"
       THEN \E bad \in Faults :
              LET u == collection_uninstall(name, Val(result.stdout), fs, bad)
              IN  IF u.raised # "none"
                  THEN End("Failed",
                           [result EXCEPT
                               !.msg = Some("collection uninstall failed")],
                           u.fs, u.deleted, u.error, invocations)
                  ELSE End("Done", [result EXCEPT !.changed = u.changed],
                           u.fs, u.deleted, u.error, invocations)
       ELSE End("Done",
                [result EXCEPT
                    !.changed = Contains(Val(result.stdout).text, SuccessMarker)],
                fs, deleted, rmtree_error, invocations)

\* the orchestrator applies the same task again
Rerun ==
    /\ pc \in {"Done", "Failed"}
    /\ Len(log) < MaxRuns
    /\ pc' = "Idle"
    /\ name' = None
    /\ result' = InitialResult
    /\ invocations' = 0
    /\ deleted' = {}
    /\ rmtree_error' = "none"
    /\ UNCHANGED <<tokens, fixed_name, params, which, fs, log>>

\* a run of the module on a host with some collections installed; extra_args
\* only reaches the command vector, which SpecOnce varies
Init ==
    /\ tokens = <<>>
    /\ fixed_name = None
    /\ params \in [state : States, name : NameInputs,
                   requirements : RequirementsInputs,
                   extra_args : {None},
                   executable : ExecutableInputs]
    /\ which \in WhichResults
    /\ fs \in SUBSET AllPaths
    /\ pc = "Idle"
    /\ name = None
    /\ result = InitialResult
    /\ invocations = 0
    /\ deleted = {}
    /\ rmtree_error = "none"
    /\ log = <<>>

Next == Plan \/ Execute \/ Conclude \/ Rerun

Spec == Init /\ [][Next]_vars

\* one run of the module on every combination of options, on a host with
\* every collection installed
InitOnce ==
    /\ tokens = <<>>
    /\ fixed_name = None
    /\ params \in [state : States, name : NameInputs,
                   requirements : RequirementsInputs,
                   extra_args : ExtraArgsInputs,
                   executable : ExecutableInputs]
    /\ which \in WhichResults
    /\ fs = AllPaths
    /\ pc = "Idle"
    /\ name = None
    /\ result = InitialResult
    /\ invocations = 0
    /\ deleted = {}
    /\ rmtree_error = "none"
    /\ log = <<>>

NextOnce == Plan \/ Execute \/ Conclude

SpecOnce == InitOnce /\ [][NextOnce]_vars

------------------------------------------------------------------------------
(* Direct calls of fix_orphaned_version_specifiers on token lists *)

RepairNames == {<<"a">>, <<" ", "*">>, <<"=", "1">>}
RepairClauses == {<<"*">>, <<"!", "=", "1">>, <<"=", "=", "1">>, <<">", "=", "1">>, <<">", "1">>, <<"<", "=", "1">>, <<"<", "1">>, <<" ", "<", "1">>}
RepairHeads == {n \o <<":">> \o c : n \in RepairNames, c \in {<<">", "1">>, <<"=", "=", "1">>}}
RepairTokens == RepairNames \cup RepairClauses \cup RepairHeads

InitRepair ==
    /\ tokens \in UNION {[1..k -> RepairTokens] : k \in 0..MaxTokens}
    /\ fixed_name = None
    /\ params = [state |-> "present", name |-> None, requirements |-> None,
                 extra_args |-> None, executable |-> <<"g">>]
    /\ which = None
    /\ fs = {}
    /\ pc = "Idle"
    /\ name = None
    /\ result = InitialResult
    /\ invocations = 0
    /\ deleted = {}
    /\ rmtree_error = "none"
    /\ log = <<>>

Repair ==
    /\ fixed_name = None
    /\ fixed_name' = Some(fix_orphaned_version_specifiers(tokens))
    /\ UNCHANGED <<tokens, params, which, fs, pc, name, result, invocations,
                   deleted, rmtree_error, log>>

NextRepair == Repair

SpecRepair == InitRepair /\ [][NextRepair]_vars

------------------------------------------------------------------------------
(* Properties of fix_orphaned_version_specifiers, checked under SpecRepair *)

\* a token that, after stripping leading whitespace, begins with a
\* constraint prefix
IsClause(t) == StartsWithAny(LStrip(t), VERSION_SPECIFIER_PREFIXES)

Repaired == Val(fixed_name)

\* C1 as stated: after the repair no element of the output is a standalone
\* constraint clause, whatever the first input token is.
C1_NoStandaloneClause ==
    fixed_name # None => \A i \in DOMAIN Repaired : ~IsClause(Repaired[i])

\* C1 as amended: only the first output element can begin with a constraint
\* prefix, and it does exactly when the first input token does; every other
\* clause is attached to the name token before it, so the output has one
\* element per name token (plus one for a leading clause) and the same text.
C1_OnlyLeadingClauseStandsAlone ==
    fixed_name # None =>
        LET leading == tokens # <<>> /\ IsClause(tokens[1])
            names == {i \in DOMAIN tokens : ~IsClause(tokens[i])}
        IN  /\ \A i \in DOMAIN Repaired :
                  IsClause(Repaired[i]) <=> (i = 1 /\ leading)
            /\ Len(Repaired) = Cardinality(names) + (IF leading THEN 1 ELSE 0)
            /\ Join(Comma, Repaired) = Join(Comma, tokens)

\* a name, then a clause that the upstream split left behind with its
\* leading blank, then another clause: all three end up in one element
C1_Witness ==
    /\ fixed_name # None
    /\ Len(tokens) = 3
    /\ ~IsClause(tokens[1])
    /\ IsClause(tokens[2]) /\ tokens[2][1] \in Whitespace
    /\ IsClause(tokens[3])
    /\ Len(Repaired) = 1

\* t is n + ":" + c1 for a name n that does not begin with a constraint
\* prefix and a clause c1
IsGroupHead(t) ==
    \E i \in DOMAIN t :
        /\ t[i] = ":"
        /\ ~IsClause(SubSeq(t, 1, i - 1))
        /\ IsClause(SubSeq(t, i + 1, Len(t)))

\* ts is a concatenation of groups [n + ":" + c1, c2, ..., ck]
IsGroupList(ts) ==
    /\ ts # <<>>
    /\ IsGroupHead(ts[1])
    /\ \A i \in DOMAIN ts : IsGroupHead(ts[i]) \/ IsClause(ts[i])

GroupHeads(ts) == {i \in DOMAIN ts : IsGroupHead(ts[i])}

\* the last token of the group that starts at position i
GroupEnd(ts, i) ==
    IF \E j \in GroupHeads(ts) : j > i
    THEN (CHOOSE j \in GroupHeads(ts) :
              j > i /\ \A k \in GroupHeads(ts) : k > i => j <= k) - 1
    ELSE Len(ts)

\* C2: a list of groups [n:c1, c2, ..., ck] is repaired to one element per
\* group, in input order, each the group's tokens joined with "," in their
\* original order.
C2_GroupsRejoined ==
    (fixed_name # None /\ IsGroupList(tokens)) =>
        /\ Len(Repaired) = Cardinality(GroupHeads(tokens))
        /\ \A i \in GroupHeads(tokens) :
              Repaired[Cardinality({j \in GroupHeads(tokens) : j <= i})]
                  = Join(Comma, SubSeq(tokens, i, GroupEnd(tokens, i)))

\* a group of two tokens followed by a second group
C2_Witness ==
    /\ fixed_name # None
    /\ IsGroupList(tokens)
    /\ Len(tokens) = 3
    /\ GroupHeads(tokens) = {1, 3}
    /\ Len(Repaired) = 2

------------------------------------------------------------------------------
(* Properties of one run of the module, checked under SpecOnce *)

Terminal == pc \in {"Done", "Failed"}

\* C6: the planned command vector is [executable, "collection"], the
\* sub-verb of the state, the whitespace-split extra_args and the targets:
\* none for absent, -r and the path for a requirements file, else the
\* repaired specifier list.
C6_CommandVector ==
    result.cmd # None =>
        LET executable == IF \E i \in DOMAIN params.executable :
                                  params.executable[i] = "/"
                          THEN params.executable ELSE Val(which)
            subverb == CASE params.state = "absent" -> <<W_list, W_format_json>>
                         [] params.state = "present" -> <<W_install>>
                         [] params.state = "latest" -> <<W_install, W_upgrade>>
                         [] params.state = "forcereinstall" -> <<W_install, W_force>>
            extra == IF params.extra_args = None THEN <<>>
                     ELSE SplitWs(Val(params.extra_args), <<>>)
            targets == IF params.state = "absent" THEN <<>>
                       ELSE IF params.requirements # None
                            THEN <<W_r, Val(params.requirements)>>
                       ELSE fix_orphaned_version_specifiers(Val(params.name))
        IN  Val(result.cmd) = <<executable, W_collection>> \o subverb \o extra
                                  \o targets

\* an uninstall request with specifiers and two extra arguments
C6_Witness ==
    /\ pc = "Planned"
    /\ params.state = "absent"
    /\ params.name # None /\ Len(Val(params.name)) = 2
    /\ Len(Val(name)) = 1
    /\ Len(ExtraArgs) = 2
    /\ Len(Val(result.cmd)) = 6

WasInstalledSuccessfully == <<"w", "a", "s", " ", "i", "n", "s", "t", "a", "l", "l", "e", "d", " ", "s", "u", "c", "c", "e", "s", "s", "f", "u", "l", "l", "y">>

\* what C7 says of a finished run in a state other than absent, for the
\* marker text m
InstallOutcome(m) ==
    (Terminal /\ params.state # "absent" /\ result.rc = Some(0)) =>
        /\ pc = "Done"
        /\ result.changed <=> Contains(Val(result.stdout).text, m)
        /\ deleted = {}
        /\ fs = AllPaths

\* C7 as stated: changed iff stdout contains "installed successfully".
C7_ChangedIffInstalledSuccessfully == InstallOutcome(<<"i", "n", "s", "t", "a", "l", "l", "e", "d", " ", "s", "u", "c", "c", "e", "s", "s", "f", "u", "l", "l", "y">>)

\* C7 as amended: changed iff stdout contains "was installed successfully".
C7_ChangedIffWasInstalledSuccessfully == InstallOutcome(WasInstalledSuccessfully)

C7_Witness ==
    /\ pc = "Done"
    /\ params.state = "forcereinstall"
    /\ result.rc = Some(0)
    /\ result.changed
    /\ deleted = {}

\* C8: after a non-zero exit the run is Failed with cmd, rc, stdout and
\* stderr attached and changed=false; the output was not parsed, nothing was
\* deleted and the CLI was invoked exactly once.
C8_NonZeroExitFails ==
    /\ invocations <= 1
    /\ (pc # "Executed" /\ result.rc # None /\ Val(result.rc) # 0) =>
          /\ pc = "Failed"
          /\ result.msg = Some("exit with non-zero code")
          /\ ~result.changed
          /\ result.cmd # None /\ result.stdout # None /\ result.stderr # None
          /\ deleted = {}
          /\ fs = AllPaths
          /\ invocations = 1

\* a failed listing for an uninstall request that names installed collections
C8_Witness ==
    /\ pc = "Failed"
    /\ params.state = "absent"
    /\ result.rc = Some(1)
    /\ name # None
    /\ \E i \in DOMAIN Val(name) : \E r \in DOMAIN Roots :
           InstallPath(Roots[r], Val(name)[i]) \in fs

------------------------------------------------------------------------------
(* Properties of the uninstall emulation and of input validation, checked   *)
(* under Spec                                                               *)

\* the install paths, among `files`, of the collections that `names` names
\* once version constraints are stripped
NamedPaths(names, files) ==
    {p \in files :
        \E i \in DOMAIN names, r \in DOMAIN Roots :
            p = InstallPath(Roots[r], BareName(names[i]))}

\* the run was an uninstall whose listing exited 0 with a well-formed manifest
ListedOk(res) ==
    /\ res.rc = Some(0)
    /\ res.stdout # None
    /\ Val(res.stdout).json # None

\* C3: an uninstall with a specifier list deletes exactly the install paths of
\* the named collections that are installed, in every root, leaves every
\* other path alone, and returns changed=true iff there was such a path.
\* Stated for runs in which the OS refuses no removal.
C3_DeletesExactlyNamed ==
    (/\ Terminal /\ params.state = "absent" /\ name # None
     /\ ListedOk(result) /\ rmtree_error # "io") =>
        LET before == fs \cup deleted
            expected == NamedPaths(Val(name), before)
        IN  /\ deleted = expected
            /\ fs = before \ expected
            /\ pc = "Done"
            /\ result.changed <=> expected # {}

\* C4: two uninstall runs in succession with the same specifiers, naming an
\* installed collection: the first reports changed=true, the second
\* changed=false, deletes nothing and does not fail.  Stated for runs whose
\* listings succeed and in which the OS refuses no removal.
C4_UninstallIdempotent ==
    (/\ Len(log) = 2 /\ params.state = "absent" /\ params.name # None
     /\ \A k \in 1..2 : ListedOk(log[k].result) /\ log[k].rmtree_error # "io"
     /\ NamedPaths(fix_orphaned_version_specifiers(Val(params.name)),
                   log[1].fs \cup log[1].deleted) # {}) =>
        /\ log[1].pc = "Done" /\ log[1].result.changed
        /\ log[2].pc = "Done" /\ ~log[2].result.changed
        /\ log[2].deleted = {}

\* a specifier list counts as supplied when it is not empty
NameGiven == params.name # None /\ Val(params.name) # <<>>
RequirementsGiven == params.requirements # None

ConfigurationError ==
    \/ NameGiven /\ RequirementsGiven
    \/ ~NameGiven /\ ~RequirementsGiven
    \/ /\ \A i \in DOMAIN params.executable : params.executable[i] # "/"
       /\ which = None

\* C5: on a configuration error the run ends Failed, the CLI is never invoked
\* and nothing is deleted.
C5_ConfigurationErrorBeforeSpawn ==
    ConfigurationError =>
        /\ pc \in {"Idle", "Failed"}
        /\ invocations = 0
        /\ deleted = {}

\* C9: when an uninstall run ends, changed is reported true iff the run
\* deleted at least one install path.
C9_ChangedIffDeleted ==
    (Terminal /\ params.state = "absent") =>
        (result.changed <=> deleted # {})

\* C10: a valid uninstall request whose listing exits 0 with a well-formed
\* manifest ends Done unless a removal fails, with a specifier list or with
\* only a requirements path.
C10_AbsentReachesDone ==
    (/\ Terminal /\ params.state = "absent"
     /\ (params.name # None) # (params.requirements # None)
     /\ ListedOk(result) /\ rmtree_error = "none") =>
        pc = "Done"

====
